---------------------------- MODULE Spec2Model ----------------------------
(***************************************************************************)
(* markdown2html.py: a line-by-line converter of a restricted Markdown     *)
(* dialect to HTML.  Text is modelled as sequences of one-character        *)
(* strings; the script's __main__ block is a state machine over the        *)
(* command line, the files it touches, the scan flags and the collected    *)
(* fragments.                                                              *)
(***************************************************************************)
EXTENDS Integers, Sequences, FiniteSets, TLC

(***************************************************************************)
(* Text helpers: Python's str operations on sequences of characters.       *)
(***************************************************************************)

\* the characters str.strip() removes
Whitespace == {" ", "\t", "\n", "\r"}

\* s.startswith(p)
startswith(s, p) == Len(s) >= Len(p) /\ SubSeq(s, 1, Len(p)) = p

\* s[i:] with a 1-based first index
From(s, i) == SubSeq(s, i, Len(s))

\* p occurs in s at index i
MatchAt(s, p, i) == i + Len(p) - 1 <= Len(s) /\ SubSeq(s, i, i + Len(p) - 1) = p

RECURSIVE lstrip(_)
lstrip(s) ==
  IF s # <<>> /\ s[1] \in Whitespace THEN lstrip(Tail(s)) ELSE s

RECURSIVE rstrip(_)
rstrip(s) ==
  IF s # <<>> /\ s[Len(s)] \in Whitespace THEN rstrip(SubSeq(s, 1, Len(s) - 1)) ELSE s

\* str.strip()
strip(s) == rstrip(lstrip(s))

\* the least element of a non-empty set of integers
Least(S) == CHOOSE j \in S : \A k \in S : j <= k

\* s.find(p, i): the least index j >= i at which p occurs in s, 0 when there is none
Find(s, p, i) ==
  LET at == {j \in i..(Len(s) - Len(p) + 1) : MatchAt(s, p, j)}
  IN  IF at = {} THEN 0 ELSE Least(at)

\* every part written with a line break after it
join_lines_ended(parts) ==
  LET ended == [k \in 1..Len(parts) |-> parts[k] \o <<"\n">>]
      all[k \in 0..Len(parts)] == IF k = 0 THEN <<>> ELSE all[k - 1] \o ended[k]
  IN  all[Len(parts)]

\* "\n".join(parts)
RECURSIVE join(_)
join(parts) ==
  IF parts = <<>> THEN <<>>
  ELSE IF Len(parts) = 1 THEN parts[1]
  ELSE parts[1] \o <<"\n">> \o join(Tail(parts))

(***************************************************************************)
(* hashlib.md5(content.encode()).hexdigest(): RFC 1321 on 32-bit words     *)
(* kept as <<high 16 bits, low 16 bits>>.                                  *)
(***************************************************************************)

\* printable ASCII, code 32 first (code 96 is spelled out: it cannot be written
\* in a TLA+ string)
Ascii ==
  << " ", "!", "\"", "#", "$", "%", "&", "'", "(", ")", "*", "+", ",", "-", ".", "/",
     "0", "1", "2", "3", "4", "5", "6", "7", "8", "9", ":", ";", "<", "=", ">", "?",
     "@", "A", "B", "C", "D", "E", "F", "G", "H", "I", "J", "K", "L", "M", "N", "O",
     "P", "Q", "R", "S", "T", "U", "V", "W", "X", "Y", "Z", "[", "\\", "]", "^", "_",
     "GRAVE", "a", "b", "c", "d", "e", "f", "g", "h", "i", "j", "k", "l", "m", "n", "o",
     "p", "q", "r", "s", "t", "u", "v", "w", "x", "y", "z", "{", "|", "}", "~" >>

\* content.encode(): the byte of an ASCII character
ord(c) ==
  IF c = "\n" THEN 10
  ELSE IF c = "\t" THEN 9
  ELSE IF c = "\r" THEN 13
  ELSE 31 + (CHOOSE k \in 1..Len(Ascii) : Ascii[k] = c)

encode(content) == [k \in 1..Len(content) |-> ord(content[k])]

HexDigits == <<"0", "1", "2", "3", "4", "5", "6", "7", "8", "9", "a", "b", "c", "d", "e", "f">>

\* floor(2^32 * abs(sin(i + 1))), i = 0..63
Md5K ==
    << <<55146, 42104>>, <<59591, 46934>>, <<9248, 28891>>, <<49597, 52974>>,
       <<62844, 4015>>, <<18311, 50730>>, <<43056, 17939>>, <<64838, 38145>>,
       <<27008, 39128>>, <<35652, 63407>>, <<65535, 23473>>, <<35164, 55230>>,
       <<27536, 4386>>, <<64920, 29075>>, <<42617, 17294>>, <<18868, 2081>>,
       <<63006, 9570>>, <<49216, 45888>>, <<9822, 23121>>, <<59830, 51114>>,
       <<54831, 4189>>, <<580, 5203>>, <<55457, 59009>>, <<59347, 64456>>,
       <<8673, 52710>>, <<49975, 2006>>, <<62677, 3463>>, <<17754, 5357>>,
       <<43491, 59653>>, <<64751, 41976>>, <<26479, 729>>, <<36138, 19594>>,
       <<65530, 14658>>, <<34673, 63105>>, <<28061, 24866>>, <<64997, 14348>>,
       <<42174, 59972>>, <<19422, 53161>>, <<63163, 19296>>, <<48831, 48240>>,
       <<10395, 32454>>, <<60065, 10234>>, <<54511, 12421>>, <<1160, 7429>>,
       <<55764, 53305>>, <<59099, 39397>>, <<8098, 31992>>, <<50348, 22117>>,
       <<62505, 8772>>, <<17194, 65431>>, <<43924, 9127>>, <<64659, 41017>>,
       <<25947, 22979>>, <<36620, 52370>>, <<65519, 62589>>, <<34180, 24017>>,
       <<28584, 32335>>, <<65068, 59104>>, <<41729, 17172>>, <<19976, 4513>>,
       <<63315, 32386>>, <<48442, 62005>>, <<10967, 53947>>, <<60294, 54161>> >>

\* per-round left-rotation amounts
Md5S ==
    << <<7, 12, 17, 22>>, <<5, 9, 14, 20>>, <<4, 11, 16, 23>>, <<6, 10, 15, 21>> >>

\* the initial chaining value A, B, C, D
Md5Init == << <<26437, 8961>>, <<61389, 43913>>, <<39098, 56574>>, <<4146, 21622>> >>

RECURSIVE Pow2(_)
Pow2(n) == IF n = 0 THEN 1 ELSE 2 * Pow2(n - 1)

\* addition modulo 2^32
Add32(x, y) ==
  LET lo == x[2] + y[2]
  IN  <<(x[1] + y[1] + (lo \div 65536)) % 65536, lo % 65536>>

\* rotation to the left by s bits, 0 < s < 32
RotL32(x, s) ==
  LET hi == IF s >= 16 THEN x[2] ELSE x[1]
      lo == IF s >= 16 THEN x[1] ELSE x[2]
      t  == s % 16
      p  == Pow2(t)
      q  == Pow2(16 - t)
  IN  <<((hi * p) % 65536) + (lo \div q), ((lo * p) % 65536) + (hi \div q)>>

\* one bit of the round functions F, G, H, I
Md5Bit(r, b, c, d) ==
  CASE r = 0 -> IF b = 1 THEN c ELSE d
    [] r = 1 -> IF d = 1 THEN b ELSE c
    [] r = 2 -> (b + c + d) % 2
    [] r = 3 -> (c + (IF b = 1 \/ d = 0 THEN 1 ELSE 0)) % 2

RECURSIVE Md5Mix16(_, _, _, _, _)
Md5Mix16(r, b, c, d, n) ==
  IF n = 0 THEN 0
  ELSE Md5Bit(r, b % 2, c % 2, d % 2)
         + 2 * Md5Mix16(r, b \div 2, c \div 2, d \div 2, n - 1)

Md5Mix(r, b, c, d) == <<Md5Mix16(r, b[1], c[1], d[1], 16), Md5Mix16(r, b[2], c[2], d[2], 16)>>

\* the message word used in step i
Md5G(i) ==
  CASE i \div 16 = 0 -> i
    [] i \div 16 = 1 -> (5 * i + 1) % 16
    [] i \div 16 = 2 -> (3 * i + 5) % 16
    [] i \div 16 = 3 -> (7 * i) % 16

\* step i of the compression of block M (16 words) from state v = <<A, B, C, D>>
Md5Step(v, M, i) ==
  LET r == i \div 16
      f == Add32(Add32(Md5Mix(r, v[2], v[3], v[4]), v[1]),
                 Add32(Md5K[i + 1], M[Md5G(i) + 1]))
  IN  <<v[4], Add32(v[2], RotL32(f, Md5S[r + 1][(i % 4) + 1])), v[2], v[3]>>

\* steps lo..hi in order.  The range is halved, and the test on w makes TLC
\* compute the first half's state before it starts the second, so the
\* evaluation nests to a depth of log2(64) instead of 64.
RECURSIVE Md5Steps(_, _, _, _)
Md5Steps(v, M, lo, hi) ==
  IF lo = hi THEN Md5Step(v, M, lo)
  ELSE LET mid == (lo + hi) \div 2
           w   == Md5Steps(v, M, lo, mid)
       IN  IF Len(w) = 4 THEN Md5Steps(w, M, mid + 1, hi) ELSE w

\* the message padded to a multiple of 64 bytes
Md5Pad(bytes) ==
  LET n    == Len(bytes)
      zero == (119 - (n % 64)) % 64
      bits == 8 * n
  IN  bytes \o <<128>> \o [k \in 1..zero |-> 0]
        \o <<bits % 256, (bits \div 256) % 256, (bits \div 65536) % 256, 0, 0, 0, 0, 0>>

\* the 16 little-endian words of block b (0-based) of the padded message
Md5Block(p, b) ==
  [w \in 1..16 |->
     LET o == 64 * b + 4 * (w - 1)
     IN  <<p[o + 3] + 256 * p[o + 4], p[o + 1] + 256 * p[o + 2]>>]

RECURSIVE Md5Blocks(_, _, _)
Md5Blocks(v, p, b) ==
  IF 64 * b >= Len(p) THEN v
  ELSE LET w == Md5Steps(v, Md5Block(p, b), 0, 63)
       IN  Md5Blocks(<<Add32(v[1], w[1]), Add32(v[2], w[2]),
                       Add32(v[3], w[3]), Add32(v[4], w[4])>>, p, b + 1)

HexByte(b) == <<HexDigits[(b \div 16) + 1], HexDigits[(b % 16) + 1]>>

\* a word's four bytes, least significant first, in hexadecimal
HexWord(x) ==
  HexByte(x[2] % 256) \o HexByte(x[2] \div 256) \o HexByte(x[1] % 256) \o HexByte(x[1] \div 256)

\* def md5_hash(content)
md5_hash(content) ==
  LET v == Md5Blocks(Md5Init, Md5Pad(encode(content)), 0)
  IN  HexWord(v[1]) \o HexWord(v[2]) \o HexWord(v[3]) \o HexWord(v[4])

(***************************************************************************)
(* The line transformer.                                                   *)
(***************************************************************************)

\* re.sub(r'c', '', content): the lower-case letter only
remove_c_lower_only(content) == SelectSeq(content, LAMBDA ch : ch # "c")

\* def remove_c(content): re.sub(r'[cC]', '', content)
remove_c(content) == SelectSeq(content, LAMBDA ch : ch \notin {"c", "C"})

\* what re.sub puts in place of a matched span, given the span's group 1
Replacement(kind, inner) ==
  CASE kind = "bold"     -> <<"<", "b", ">">> \o inner \o <<"<", "/", "b", ">">>
    [] kind = "emphasis" -> <<"<", "e", "m", ">">> \o inner \o <<"<", "/", "e", "m", ">">>
    [] kind = "md5"      -> md5_hash(inner)
    [] kind = "remove_c" -> remove_c(inner)

\* '.' matches every character but a line break
DotAll(s, a, b) == \A k \in a..b : s[k] # "\n"

\* the index of the delimiter that closes a span opened at i by the pattern
\* open(.*?)close, 0 when the pattern does not match at i: the group is lazy, so
\* the first closing delimiter after the opening one ends it
SpanEnd(open, close, s, i) ==
  IF ~MatchAt(s, open, i) THEN 0
  ELSE LET j == Find(s, close, i + Len(open))
       IN  IF j > 0 /\ DotAll(s, i + Len(open), j - 1) THEN j ELSE 0

\* re.sub(r'open(.*?)close', replacement, s), from index i on: the leftmost
\* match is replaced, the text before it is copied, and the scan goes on after
\* the match, so matches never overlap
RECURSIVE re_sub(_, _, _, _, _)
re_sub(open, close, kind, s, i) ==
  LET starts == {k \in i..Len(s) : SpanEnd(open, close, s, k) > 0}
  IN  IF starts = {} THEN From(s, i)
      ELSE LET k == Least(starts)
               j == SpanEnd(open, close, s, k)
           IN  SubSeq(s, i, k - 1)
                 \o Replacement(kind, SubSeq(s, k + Len(open), j - 1))
                 \o re_sub(open, close, kind, s, j + Len(close))

\* re.sub(r'\*\*(.*)\*\*', ...): the greedy group, from the first '**' to the last
sub_bold_greedy(line) ==
  LET o  == Find(line, <<"*", "*">>, 1)
      cs == {k \in (o + 2)..(Len(line) - 1) : MatchAt(line, <<"*", "*">>, k)}
  IN  IF o = 0 \/ cs = {} THEN line
      ELSE LET c == CHOOSE k \in cs : \A j \in cs : j <= k
           IN  SubSeq(line, 1, o - 1) \o <<"<", "b", ">">> \o SubSeq(line, o + 2, c - 1)
                 \o <<"<", "/", "b", ">">> \o SubSeq(line, c + 2, Len(line))

\* line = re.sub(r'\*\*(.*?)\*\*', r'<b>\1</b>', line)
sub_bold(line) == re_sub(<<"*", "*">>, <<"*", "*">>, "bold", line, 1)

\* line = re.sub(r'__(.*?)__', r'<em>\1</em>', line)
sub_emphasis(line) == re_sub(<<"_", "_">>, <<"_", "_">>, "emphasis", line, 1)

\* line = re.sub(r'\[\[(.*?)\]\]', lambda match: md5_hash(match.group(1)), line)
sub_md5(line) == re_sub(<<"[", "[">>, <<"]", "]">>, "md5", line, 1)

\* line = re.sub(r'\(\((.*?)\)\)', lambda match: remove_c(match.group(1)), line)
sub_remove_c(line) == re_sub(<<"(", "(">>, <<")", ")">>, "remove_c", line, 1)

\* the hash substitution moved in front of bold and emphasis
inline_hash_first(line) == sub_remove_c(sub_emphasis(sub_bold(sub_md5(line))))

\* the four substitutions in the order of the code
inline(line) == sub_remove_c(sub_md5(sub_emphasis(sub_bold(line))))

\* '#' * level
Hashes(level) == [k \in 1..level |-> "#"]

\* heading_levels[level].format(text)
heading_levels(level, text) ==
  <<"<", "h", HexDigits[level + 1], ">">> \o text \o <<"<", "/", "h", HexDigits[level + 1], ">">>

\* a heading loop that starts at level 5: range(5, 0, -1)
heading_level_from_five(line, level) ==
  LET found == {k \in 1..5 : k <= level /\ startswith(line, Hashes(k) \o <<" ">>)}
  IN  IF found = {} THEN 0 ELSE CHOOSE k \in found : \A j \in found : j <= k

\* for level in range(6, 0, -1): the first level whose prefix the line starts
\* with, 0 when the loop ends without one
RECURSIVE heading_level(_, _)
heading_level(line, level) ==
  IF level = 0 THEN 0
  ELSE IF startswith(line, Hashes(level) \o <<" ">>) THEN level
  ELSE heading_level(line, level - 1)

\* f"<li>{line[2:].strip()}</li>"
list_item(line) ==
  <<"<", "l", "i", ">">> \o strip(From(line, 3)) \o <<"<", "/", "l", "i", ">">>

UlOpen  == <<"<", "u", "l", ">", "\n">>
OlOpen  == <<"<", "o", "l", ">", "\n">>
UlClose == <<"<", "/", "u", "l", ">">>
OlClose == <<"<", "/", "o", "l", ">">>
PClose  == <<"<", "/", "p", ">">>
POpen   == <<"<", "p", ">", "\n", " ", " ", " ", " ">>
PBreak  == <<" ", " ", " ", " ", "<", "b", "r", " ", "/", ">", "\n", " ", " ", " ", " ">>

\* Each rule returns <<html, in_unordered_list, in_ordered_list, in_paragraph>>.

\* return heading_levels[level].format(line[level+1:].strip()), False, False, False
heading(line, level) ==
  <<heading_levels(level, strip(From(line, level + 2))), FALSE, FALSE, FALSE>>

\* an unordered list rule that hands back the paragraph flag it was given
unordered_item_keeps_paragraph(line, in_unordered_list, in_ordered_list, in_paragraph) ==
  IF ~in_unordered_list
    THEN <<UlOpen \o list_item(line), TRUE, FALSE, in_paragraph>>
    ELSE <<list_item(line), TRUE, FALSE, in_paragraph>>

\* an unordered list rule that tests the flag of the other list kind
unordered_item_tests_ordered(line, in_unordered_list, in_ordered_list, in_paragraph) ==
  IF ~in_ordered_list
    THEN <<UlOpen \o list_item(line), TRUE, FALSE, FALSE>>
    ELSE <<list_item(line), TRUE, FALSE, FALSE>>

\* if line.startswith('- ')
unordered_item(line, in_unordered_list, in_ordered_list, in_paragraph) ==
  IF ~in_unordered_list
    THEN <<UlOpen \o list_item(line), TRUE, FALSE, FALSE>>
    ELSE <<list_item(line), TRUE, FALSE, FALSE>>

\* an ordered list rule that returns the flags of the unordered rule
ordered_item_sets_unordered(line, in_unordered_list, in_ordered_list, in_paragraph) ==
  IF ~in_ordered_list
    THEN <<OlOpen \o list_item(line), TRUE, FALSE, FALSE>>
    ELSE <<list_item(line), TRUE, FALSE, FALSE>>

\* an ordered list rule that opens no list while the other kind is open
ordered_item_in_any_list(line, in_unordered_list, in_ordered_list, in_paragraph) ==
  IF ~in_ordered_list /\ ~in_unordered_list
    THEN <<OlOpen \o list_item(line), FALSE, TRUE, FALSE>>
    ELSE <<list_item(line), FALSE, TRUE, FALSE>>

\* if line.startswith('* ')
ordered_item(line, in_unordered_list, in_ordered_list, in_paragraph) ==
  IF ~in_ordered_list
    THEN <<OlOpen \o list_item(line), FALSE, TRUE, FALSE>>
    ELSE <<list_item(line), FALSE, TRUE, FALSE>>

\* a blank-line rule that hands back the flags it was given
blank_line_keeps_state(line, in_unordered_list, in_ordered_list, in_paragraph) ==
  IF in_unordered_list THEN <<UlClose, in_unordered_list, in_ordered_list, in_paragraph>>
  ELSE IF in_ordered_list THEN <<OlClose, in_unordered_list, in_ordered_list, in_paragraph>>
  ELSE IF in_paragraph THEN <<PClose, in_unordered_list, in_ordered_list, in_paragraph>>
  ELSE <<<<>>, FALSE, FALSE, FALSE>>

\* if line == ""
blank_line(line, in_unordered_list, in_ordered_list, in_paragraph) ==
  IF in_unordered_list THEN <<UlClose, FALSE, FALSE, FALSE>>
  ELSE IF in_ordered_list THEN <<OlClose, FALSE, FALSE, FALSE>>
  ELSE IF in_paragraph THEN <<PClose, FALSE, FALSE, FALSE>>
  ELSE <<<<>>, FALSE, FALSE, FALSE>>

\* a paragraph rule that closes the list it finds open
paragraph_closes_list(line, in_unordered_list, in_ordered_list, in_paragraph) ==
  IF in_unordered_list THEN <<UlClose \o <<"\n">> \o POpen \o line, FALSE, FALSE, TRUE>>
  ELSE IF in_ordered_list THEN <<OlClose \o <<"\n">> \o POpen \o line, FALSE, FALSE, TRUE>>
  ELSE IF ~in_paragraph THEN <<POpen \o line, FALSE, FALSE, TRUE>>
  ELSE <<PBreak \o line, FALSE, FALSE, TRUE>>

\* a paragraph rule that opens a paragraph on every line
paragraph_always_opens(line, in_unordered_list, in_ordered_list, in_paragraph) ==
  <<POpen \o line, FALSE, FALSE, TRUE>>

\* a paragraph rule that hands back the list flags it was given
paragraph_keeps_lists(line, in_unordered_list, in_ordered_list, in_paragraph) ==
  IF ~in_paragraph
    THEN <<POpen \o line, in_unordered_list, in_ordered_list, TRUE>>
    ELSE <<PBreak \o line, in_unordered_list, in_ordered_list, TRUE>>

\* the paragraph rule, which ends the function
paragraph(line, in_unordered_list, in_ordered_list, in_paragraph) ==
  IF ~in_paragraph
    THEN <<POpen \o line, FALSE, FALSE, TRUE>>
    ELSE <<PBreak \o line, FALSE, FALSE, TRUE>>

\* the rules in the order the function tries them on the rewritten line
classify(line, in_unordered_list, in_ordered_list, in_paragraph) ==
  LET level == heading_level(line, 6)
  IN  IF level > 0 THEN heading(line, level)
      ELSE IF startswith(line, <<"-", " ">>)
        THEN unordered_item(line, in_unordered_list, in_ordered_list, in_paragraph)
      ELSE IF startswith(line, <<"*", " ">>)
        THEN ordered_item(line, in_unordered_list, in_ordered_list, in_paragraph)
      ELSE IF line = <<>>
        THEN blank_line(line, in_unordered_list, in_ordered_list, in_paragraph)
      ELSE paragraph(line, in_unordered_list, in_ordered_list, in_paragraph)

\* a transformer whose blank-line rule looks at the line as it came in: a line
\* the substitutions leave empty goes to the paragraph rule
markdown_to_html_line_blank_input(line, in_unordered_list, in_ordered_list, in_paragraph) ==
  IF line # <<>> /\ inline(line) = <<>>
    THEN paragraph(inline(line), in_unordered_list, in_ordered_list, in_paragraph)
    ELSE classify(inline(line), in_unordered_list, in_ordered_list, in_paragraph)

\* def markdown_to_html_line(line, in_unordered_list, in_ordered_list, in_paragraph)
markdown_to_html_line(line, in_unordered_list, in_ordered_list, in_paragraph) ==
  classify(inline(line), in_unordered_list, in_ordered_list, in_paragraph)

(***************************************************************************)
(* Inputs.                                                                 *)
(***************************************************************************)

\* the longest document, in lines
MaxLines == 3

\* the longest line of the inline-markup inputs, in tokens
MaxTokens == 4

\* the longest line of the block-markup inputs, in tokens
MaxBlockTokens == 3

\* the tokens of a token sequence, concatenated
RECURSIVE Flatten(_)
Flatten(ts) == IF ts = <<>> THEN <<>> ELSE Head(ts) \o Flatten(Tail(ts))

\* the lines of at most n tokens of T, each ended by its line break, as
\* readlines() returns them
TokenLines(T, n) ==
  {Flatten(ts) \o <<"\n">> : ts \in UNION {[1..k -> T] : k \in 0..n}}

\* the lines documents are made of: blank, blank but for white space, plain
\* text, unordered and ordered items, a heading
DocLines ==
  { <<"\n">>,
    <<" ", "\n">>,
    <<"a", "\n">>,
    <<" ", "b", " ", "\n">>,
    <<"-", " ", "a", "\n">>,
    <<"-", " ", "b", "\n">>,
    <<"*", " ", "a", "\n">>,
    <<"#", " ", "a", "\n">> }

Docs == UNION {[1..k -> DocLines] : k \in 0..MaxLines}

\* documents of the runs whose command line or input file is at fault
SmallDocs == {<<>>, << <<"a", "\n">> >>}

\* bold and emphasis markers, whole and halved
BoldTokens == {<<"*", "*">>, <<"_", "_">>, <<"*">>, <<"a">>, <<" ">>}

\* hash spans and bold markers
HashTokens == {<<"[", "[">>, <<"]", "]">>, <<"*", "*">>, <<"a">>}

\* strip spans, bold markers and the letters the strip removes and keeps
StripTokens == {<<"(", "(">>, <<")", ")">>, <<"*", "*">>, <<"c">>, <<"C", "a">>}

\* a hash span inside a strip span and the reverse, emphasis inside a hash span
NestedLines ==
  { <<"(", "(", "[", "[", "a", "]", "]", ")", ")", "\n">>,
    <<"[", "[", "(", "(", "c", "a", ")", ")", "]", "]", "\n">>,
    <<"[", "[", "_", "_", "a", "_", "_", "]", "]", "\n">>,
    <<"x", "[", "[", "a", "b", "c", "]", "]", " ", "(", "(", "C", "o", "c", "o", "a", ")", ")", "\n">> }

\* bold next to emphasis, two bold spans
PairedLines ==
  { <<"*", "*", "a", "*", "*", " ", "_", "_", "b", "_", "_", "\n">>,
    <<"*", "*", "a", "*", "*", " ", "x", " ", "*", "*", "b", "*", "*", "\n">> }

InlineLines ==
  TokenLines(BoldTokens, MaxTokens) \cup TokenLines(HashTokens, MaxTokens)
    \cup TokenLines(StripTokens, MaxTokens) \cup NestedLines \cup PairedLines

\* heading, list and paragraph prefixes; a strip span that leaves nothing
BlockTokens ==
  { <<"#", " ">>, <<"#", "#", "#", "#", "#">>, <<"#", "#", "#", "#", "#", "#">>,
    <<"-", " ">>, <<"*", " ">>, <<"a">>, <<"(", "(", "c", ")", ")">> }

BlockLines == TokenLines(BlockTokens, MaxBlockTokens)

Prog     == "./markdown2html.py"
InPath   == "README.md"
OutPath  == "README.html"
OldText  == <<"o", "l", "d">>

(***************************************************************************)
(* The script: the __main__ block.                                         *)
(***************************************************************************)

VARIABLES
  argv,               \* sys.argv
  md_isfile,          \* os.path.isfile(markdown_file), as the file system has it
  md_lines,           \* the lines of the input file
  out_file,           \* the output file: [exists, text]
  pc,                 \* the statement the script is at
  lines,              \* lines = md_file.readlines()
  idx,                \* the position of the for loop in lines, from 1
  in_unordered_list,
  in_ordered_list,
  in_paragraph,
  html_line,          \* the fragment of the last line transformed
  html_content,       \* the fragments collected
  stderr,             \* what was written to sys.stderr, a message per write
  status              \* <<>> while running, <<n>> after sys.exit(n)

vars ==
  <<argv, md_isfile, md_lines, out_file, pc, lines, idx, in_unordered_list,
    in_ordered_list, in_paragraph, html_line, html_content, stderr, status>>

env == <<argv, md_isfile, md_lines>>
flags == <<in_unordered_list, in_ordered_list, in_paragraph>>

NoFile == [exists |-> FALSE, text |-> <<>>]
OldFile == [exists |-> TRUE, text |-> OldText]

UsageMessage == <<"Usage: ./markdown2html.py README.md README.html", "\n">>
MissingMessage(path) == <<"Missing ", path, "\n">>
\* str(e) + "\n"
ErrorMessage(e) == <<e, "\n">>

\* the locals before the script assigns them
Unassigned ==
  /\ pc = "argc"
  /\ lines = <<>>
  /\ idx = 1
  /\ in_unordered_list = FALSE
  /\ in_ordered_list = FALSE
  /\ in_paragraph = FALSE
  /\ html_line = <<>>
  /\ html_content = <<>>
  /\ stderr = <<>>
  /\ status = <<>>

Init ==
  /\ Unassigned
  /\ out_file \in {NoFile, OldFile}
  /\ \/ /\ argv = <<Prog, InPath, OutPath>>
        /\ md_isfile = TRUE
        /\ md_lines \in Docs
     \/ /\ argv \in {<<Prog>>, <<Prog, InPath>>, <<Prog, InPath, OutPath>>,
                     <<Prog, InPath, OutPath, "extra">>}
        /\ md_isfile \in BOOLEAN
        /\ md_lines \in (IF md_isfile THEN SmallDocs ELSE {<<>>})

\* except Exception as e: sys.stderr.write(str(e) + "\n"); sys.exit(1)
Except(e) ==
  /\ stderr' = Append(stderr, ErrorMessage(e))
  /\ status' = <<1>>
  /\ pc' = "exit"

\* if len(sys.argv) < 2: the check that lets one path argument through
CheckArgs_one_path ==
  /\ pc = "argc"
  /\ IF Len(argv) < 2
       THEN /\ stderr' = Append(stderr, UsageMessage)
            /\ status' = <<1>>
            /\ pc' = "exit"
       ELSE /\ pc' = "isfile"
            /\ UNCHANGED <<stderr, status>>
  /\ UNCHANGED <<env, out_file, lines, idx, flags, html_line, html_content>>

\* if len(sys.argv) < 3: usage, exit 1
CheckArgs ==
  /\ pc = "argc"
  /\ IF Len(argv) < 3
       THEN /\ stderr' = Append(stderr, UsageMessage)
            /\ status' = <<1>>
            /\ pc' = "exit"
       ELSE /\ pc' = "isfile"
            /\ UNCHANGED <<stderr, status>>
  /\ UNCHANGED <<env, out_file, lines, idx, flags, html_line, html_content>>

\* if not os.path.isfile(markdown_file): Missing, exit 1
CheckFile ==
  /\ pc = "isfile"
  /\ IF ~md_isfile
       THEN /\ stderr' = Append(stderr, MissingMessage(argv[2]))
            /\ status' = <<1>>
            /\ pc' = "exit"
       ELSE /\ pc' = "read"
            /\ UNCHANGED <<stderr, status>>
  /\ UNCHANGED <<env, out_file, lines, idx, flags, html_line, html_content>>

\* the output file opened for writing before the lines are read
ReadLines_opens_output ==
  /\ pc = "read"
  /\ \/ /\ lines' = md_lines
        /\ html_content' = <<>>
        /\ in_unordered_list' = FALSE
        /\ in_ordered_list' = FALSE
        /\ in_paragraph' = FALSE
        /\ idx' = 1
        /\ pc' = "loop"
        /\ out_file' = [exists |-> TRUE, text |-> <<>>]
        /\ UNCHANGED <<stderr, status>>
     \/ /\ Except("read error")
        /\ UNCHANGED <<lines, html_content, flags, idx, out_file>>
  /\ UNCHANGED <<env, html_line>>

\* with open(markdown_file, 'r') as md_file: lines = md_file.readlines(), then
\* the initialisation of html_content and of the three flags; or the read
\* raises (the file cannot be opened or decoded)
ReadLines ==
  /\ pc = "read"
  /\ \/ /\ lines' = md_lines
        /\ html_content' = <<>>
        /\ in_unordered_list' = FALSE
        /\ in_ordered_list' = FALSE
        /\ in_paragraph' = FALSE
        /\ idx' = 1
        /\ pc' = "loop"
        /\ UNCHANGED <<stderr, status>>
     \/ /\ Except("read error")
        /\ UNCHANGED <<lines, html_content, flags, idx>>
  /\ UNCHANGED <<env, out_file, html_line>>

\* html_content.insert(0, html_line)
append_in_front(content, fragment) == <<fragment>> \o content

\* html_content.append(html_line)
append(content, fragment) == Append(content, fragment)

\* one iteration of: for line in lines
LoopStep ==
  /\ pc = "loop"
  /\ idx <= Len(lines)
  /\ LET r == markdown_to_html_line(strip(lines[idx]), in_unordered_list,
                                    in_ordered_list, in_paragraph)
     IN  /\ html_line' = r[1]
         /\ in_unordered_list' = r[2]
         /\ in_ordered_list' = r[3]
         /\ in_paragraph' = r[4]
         /\ html_content' = IF r[1] # <<>> THEN append(html_content, r[1])
                            ELSE html_content
  /\ idx' = idx + 1
  /\ UNCHANGED <<env, out_file, pc, lines, stderr, status>>

\* a closure that forgets the ordered list
closing_forgets_ordered(content, ul, ol, p) ==
  LET c1 == IF ul THEN append(content, UlClose) ELSE content
  IN  IF p THEN append(c1, PClose) ELSE c1

\* the three ifs after the loop, in their order
closing(content, ul, ol, p) ==
  LET c1 == IF ul THEN append(content, UlClose) ELSE content
      c2 == IF ol THEN append(c1, OlClose) ELSE c1
  IN  IF p THEN append(c2, PClose) ELSE c2

\* close any open list or paragraph at the end of the document
CloseBlocks ==
  /\ pc = "loop"
  /\ idx > Len(lines)
  /\ html_content' = closing(html_content, in_unordered_list, in_ordered_list, in_paragraph)
  /\ pc' = "write"
  /\ UNCHANGED <<env, out_file, lines, idx, flags, html_line, stderr, status>>

\* an exception raised inside the try block while the lines are transformed
\* (the interpreter runs out of memory)
RaiseInLoop ==
  /\ pc = "loop"
  /\ Except("processing error")
  /\ UNCHANGED <<env, out_file, lines, idx, flags, html_line, html_content>>

\* with open(html_file, 'w') as html_out: html_out.write("\n".join(html_content));
\* the open may fail (the file is left as it was), and the write may fail after
\* the open has truncated the file
WriteOutput ==
  /\ pc = "write"
  /\ LET text == join(html_content)
     IN  \/ /\ out_file' = [exists |-> TRUE, text |-> text]
            /\ pc' = "written"
            /\ UNCHANGED <<stderr, status>>
         \/ /\ out_file' = out_file
            /\ Except("open error")
         \/ /\ \E n \in {0, Len(text) \div 2} :
                 out_file' = [exists |-> TRUE, text |-> SubSeq(text, 1, n)]
            /\ Except("write error")
  /\ UNCHANGED <<env, lines, idx, flags, html_line, html_content>>

\* sys.exit(0)
Exit0 ==
  /\ pc = "written"
  /\ status' = <<0>>
  /\ pc' = "exit"
  /\ UNCHANGED <<env, out_file, lines, idx, flags, html_line, html_content, stderr>>

Next ==
  \/ CheckArgs
  \/ CheckFile
  \/ ReadLines
  \/ RaiseInLoop
  \/ LoopStep
  \/ CloseBlocks
  \/ WriteOutput
  \/ Exit0

Spec == Init /\ [][Next]_vars

(***************************************************************************)
(* The line transformer on its own: one call of the loop body on one line, *)
(* from any scan state.                                                    *)
(***************************************************************************)

\* the interpreter runs the script statement by statement until it exits
LiveSpec == Spec /\ WF_vars(Next)

LineStart(inputs) ==
  /\ argv = <<Prog, InPath, OutPath>>
  /\ md_isfile = TRUE
  /\ md_lines \in {<<l>> : l \in inputs}
  /\ out_file = NoFile
  /\ pc = "loop"
  /\ lines = md_lines
  /\ idx = 1
  /\ in_unordered_list \in BOOLEAN
  /\ in_ordered_list \in BOOLEAN
  /\ in_paragraph \in BOOLEAN
  /\ html_line = <<>>
  /\ html_content = <<>>
  /\ stderr = <<>>
  /\ status = <<>>

LineInit == LineStart(BlockLines)

LineSpec == LineInit /\ [][LoopStep]_vars

InlineInit == LineStart(InlineLines) /\ flags = <<FALSE, FALSE, FALSE>>

InlineSpec == InlineInit /\ [][LoopStep]_vars

(***************************************************************************)
(* Properties.                                                             *)
(***************************************************************************)

\* the line the loop is at, as the transformer receives it
Stripped(k) == strip(lines[k])

\* a step of the loop body
IsLoopStep == pc = "loop" /\ idx <= Len(lines) /\ idx' = idx + 1

ItemA == <<"-", " ", "a", "\n">>
TextA == <<"a", "\n">>

\* C1: in every state the driver reaches, at most one of in_unordered_list,
\* in_ordered_list and in_paragraph is true.
C1_AtMostOneBlock ==
  Cardinality({f \in 1..3 : flags[f]}) <= 1

\* a paragraph line has just followed a list item: the list flag was dropped
C1_Witness ==
  /\ pc = "loop"
  /\ idx = 3
  /\ lines[1] = ItemA
  /\ lines[2] = TextA
  /\ in_paragraph
  /\ ~in_unordered_list

\* the fragments as the specification spells them
LitPOpen   == <<"<", "p", ">", "\n", " ", " ", " ", " ">>
LitPBreak  == <<" ", " ", " ", " ", "<", "b", "r", " ", "/", ">", "\n", " ", " ", " ", " ">>
LitPClose  == <<"<", "/", "p", ">">>
LitUlOpen  == <<"<", "u", "l", ">", "\n">>
LitUlClose == <<"<", "/", "u", "l", ">">>
LitOlOpen  == <<"<", "o", "l", ">", "\n">>
LitOlClose == <<"<", "/", "o", "l", ">">>
LitLi(text) == <<"<", "l", "i", ">">> \o text \o <<"<", "/", "l", "i", ">">>

\* p occurs somewhere in s
Contains(s, p) == \E k \in 1..Len(s) : MatchAt(s, p, k)

\* a line of plain text: none of the four delimiters, no '#', '- ' or '* ' prefix
IsPlainText(s) ==
  /\ s # <<>>
  /\ ~Contains(s, <<"*", "*">>) /\ ~Contains(s, <<"_", "_">>)
  /\ ~Contains(s, <<"[", "[">>) /\ ~Contains(s, <<"(", "(">>)
  /\ s[1] # "#"
  /\ ~startswith(s, <<"-", " ">>) /\ ~startswith(s, <<"*", " ">>)

\* every line of the document is blank or plain text
PlainDocument == \A k \in 1..Len(lines) : Stripped(k) = <<>> \/ IsPlainText(Stripped(k))

\* what line k of a plain document adds to the output, told from the line
\* before it alone: a run's first line opens the paragraph, a later line of
\* the run breaks it, the blank line after a run closes it, any other blank
\* line adds nothing
RunFragment(k) ==
  LET s        == Stripped(k)
      runStart == k = 1 \/ Stripped(k - 1) = <<>>
  IN  IF s # <<>> THEN (IF runStart THEN LitPOpen \o s ELSE LitPBreak \o s)
      ELSE IF runStart THEN <<>> ELSE LitPClose

\* the paragraph blocks of a plain document: a block for each maximal run of
\* lines that are not blank, the last one closed by the end of the document
RunBlocks ==
  LET each == SelectSeq([k \in 1..Len(lines) |-> RunFragment(k)], LAMBDA f : f # <<>>)
  IN  IF Len(lines) > 0 /\ Stripped(Len(lines)) # <<>> THEN Append(each, LitPClose) ELSE each

\* C2: the output written for a document of blank and plain-text lines is its
\* paragraph blocks, one per maximal run of non-blank lines: '<p>\n    text' for
\* the first line of a run, '    <br />\n    text' for each later one, one
\* '</p>' after each run, and nothing else for blank lines.
C2_PlainTextParagraphs ==
  (pc = "written" /\ PlainDocument) =>
    /\ html_content = RunBlocks
    /\ out_file = [exists |-> TRUE, text |-> join(RunBlocks)]

\* a run of two lines closed by a blank line has been written
C2_Witness ==
  /\ pc = "written"
  /\ PlainDocument
  /\ Len(lines) = 3
  /\ Stripped(1) # <<>> /\ Stripped(2) # <<>> /\ Stripped(3) = <<>>
  /\ html_content = <<LitPOpen \o <<"a">>, LitPBreak \o <<"b">>, LitPClose>>

\* line k as the classification sees it: stripped, then rewritten
Rewritten(k) == inline(Stripped(k))

\* the number of '#' characters s starts with
LeadingHashes(s) ==
  CHOOSE n \in 0..Len(s) :
    /\ \A j \in 1..n : s[j] = "#"
    /\ n < Len(s) => s[n + 1] # "#"

\* s starts with one to six '#' and then a space
IsHeadingText(s) ==
  LET n == LeadingHashes(s)
  IN  n \in 1..6 /\ Len(s) > n /\ s[n + 1] = " "

IsUlItem(k) == startswith(Rewritten(k), <<"-", " ">>)
IsOlItem(k) == startswith(Rewritten(k), <<"*", " ">>)
IsBlank(k)  == Rewritten(k) = <<>>
ItemText(k) == strip(From(Rewritten(k), 3))

\* line k puts a fragment in the output: every line that is not blank does, and
\* a blank line does when the line before it left a list or a paragraph open
Emits(k) == ~IsBlank(k) \/ (k > 1 /\ ~IsBlank(k - 1) /\ ~IsHeadingText(Rewritten(k - 1)))

\* the place of line k's fragment in the output
FragIndex(k) == Cardinality({j \in 1..k : Emits(j)})

\* the last line of the run of unordered items line k is in
UlRunEnd(k) ==
  CHOOSE e \in k..Len(lines) :
    /\ \A j \in k..e : IsUlItem(j)
    /\ e < Len(lines) => ~IsUlItem(e + 1)

\* the block open after line e is closed: a blank line or the end follows
ClosedAfter(e) == e = Len(lines) \/ IsBlank(e + 1)

\* two consecutive unordered items, line k and the next, give their two <li>
\* fragments, the opener on the first item of the run only
UlPairGrouped(k) ==
  LET i == FragIndex(k)
  IN  /\ html_content[i] =
           (IF k = 1 \/ ~IsUlItem(k - 1) THEN LitUlOpen ELSE <<>>) \o LitLi(ItemText(k))
      /\ html_content[i + 1] = LitLi(ItemText(k + 1))

\* C3 as claimed: consecutive unordered items give '<ul>\n<li>a</li>' then
\* '<li>b</li>', and however the document continues a '</ul>' follows them in
\* the output.
C3_Original ==
  pc = "written" =>
    \A k \in 1..(Len(lines) - 1) :
      (IsUlItem(k) /\ IsUlItem(k + 1)) =>
        /\ UlPairGrouped(k)
        /\ \E j \in (FragIndex(k) + 2)..Len(html_content) : html_content[j] = LitUlClose

\* C3, amended: consecutive unordered items give '<ul>\n<li>a</li>' then
\* '<li>b</li>' (one opener, on the first item of the run), and the fragment
\* after the run's last item is '</ul>' exactly when a blank line or the end of
\* the document follows the run; after a heading, a '* ' item or paragraph text
\* no '</ul>' is emitted for that list: the output holds as many '</ul>' as
\* there are unordered items followed by a blank line or by the end.
C3_ListGrouping ==
  pc = "written" =>
    /\ \A k \in 1..(Len(lines) - 1) :
         (IsUlItem(k) /\ IsUlItem(k + 1)) =>
           LET e == UlRunEnd(k)
               n == FragIndex(e) + 1
           IN  /\ UlPairGrouped(k)
               /\ n <= Len(html_content)
               /\ html_content[n] = LitUlClose <=> ClosedAfter(e)
    /\ Cardinality({j \in 1..Len(html_content) : html_content[j] = LitUlClose})
         = Cardinality({e \in 1..Len(lines) : IsUlItem(e) /\ ClosedAfter(e)})

\* two items and then a heading: the list was opened once and never closed
C3_Witness ==
  /\ pc = "written"
  /\ Len(lines) = 3
  /\ IsUlItem(1) /\ IsUlItem(2) /\ IsHeadingText(Rewritten(3))
  /\ html_content = <<LitUlOpen \o LitLi(<<"a">>), LitLi(<<"b">>),
                      <<"<", "h", "1", ">", "a", "<", "/", "h", "1", ">">> >>

\* the closing tag of the block the scan state has open, if any
ClosingTagFor ==
  IF in_unordered_list THEN <<LitUlClose>>
  ELSE IF in_ordered_list THEN <<LitOlClose>>
  ELSE IF in_paragraph THEN <<LitPClose>>
  ELSE <<>>

\* C4: after the last line the driver appends exactly the closing tag of the
\* block the final scan state has open ('</ul>', '</ol>' or '</p>'), and
\* nothing when none is open; it never appends two.
C4_EndOfDocumentClosure ==
  [][(pc = "loop" /\ pc' = "write") =>
       /\ idx > Len(lines)
       /\ html_content' = html_content \o ClosingTagFor]_vars

\* a document that ended inside an ordered list got its '</ol>'
C4_Witness ==
  /\ pc = "write"
  /\ in_ordered_list
  /\ Len(html_content) >= 2
  /\ html_content[Len(html_content)] = LitOlClose
  /\ html_content[Len(html_content) - 1] # LitOlClose

\* '<hL>text</hL>'
LitHeading(n, text) ==
  LET d == <<"1", "2", "3", "4", "5", "6">>[n]
  IN  <<"<", "h", d, ">">> \o text \o <<"<", "/", "h", d, ">">>

\* the fragment is a heading
IsHeadingFragment(f) == startswith(f, <<"<", "h">>)

\* s starts with seven '#' and then a space
IsSevenHashes(s) == LeadingHashes(s) = 7 /\ Len(s) > 7 /\ s[8] = " "

NoBlock == <<FALSE, FALSE, FALSE>>
ParagraphOnly == <<FALSE, FALSE, TRUE>>

\* the stripped line is handled by the paragraph rule
ByParagraphRule(s) ==
  /\ html_line' = (IF in_paragraph THEN LitPBreak ELSE LitPOpen) \o inline(s)
  /\ flags' = ParagraphOnly

\* C5 as claimed: the stripped line is treated as a heading exactly when it
\* starts with L '#' (1 <= L <= 6) and then a space; the fragment is then
\* '<hL>text</hL>', text the trimmed (and rewritten) remainder, and the state
\* all-false; seven '#' and a space go to the paragraph rule.
C5_Original ==
  [][IsLoopStep =>
       LET s == Stripped(idx)
           n == LeadingHashes(s)
       IN  /\ IsHeadingFragment(html_line') <=> IsHeadingText(s)
           /\ IsHeadingText(s) =>
                /\ html_line' = LitHeading(n, strip(inline(From(s, n + 2))))
                /\ flags' = NoBlock
           /\ IsSevenHashes(s) => ByParagraphRule(s)]_vars

\* C5, amended: the stripped line is treated as a heading exactly when, once
\* the four inline substitutions have rewritten it, it starts with L '#'
\* (1 <= L <= 6) and then a space; the fragment is then '<hL>text</hL>', text
\* the trimmed remainder of the rewritten line, and the state all-false; a
\* line of seven '#' and a space goes to the paragraph rule.
C5_HeadingLevels ==
  [][IsLoopStep =>
       LET r == Rewritten(idx)
           n == LeadingHashes(r)
       IN  /\ IsHeadingFragment(html_line') <=> IsHeadingText(r)
           /\ IsHeadingText(r) =>
                /\ html_line' = LitHeading(n, strip(From(r, n + 2)))
                /\ flags' = NoBlock
           /\ IsSevenHashes(Stripped(idx)) => ByParagraphRule(Stripped(idx))]_vars

\* '((c))# a' does not start with '#', and came out as a level-1 heading
C5_Witness ==
  /\ idx = 2
  /\ Stripped(1) = <<"(", "(", "c", ")", ")", "#", " ", "a">>
  /\ html_line = LitHeading(1, <<"a">>)
  /\ flags = NoBlock

\* the first k fragments of fs, one per line of the output text
RECURSIVE LinesText(_, _)
LinesText(fs, k) ==
  IF k = 0 THEN <<>>
  ELSE IF k = 1 THEN fs[1]
  ELSE LinesText(fs, k - 1) \o <<"\n">> \o fs[k]

\* a is the beginning of b
IsPrefix(a, b) == Len(a) <= Len(b) /\ SubSeq(b, 1, Len(a)) = a

\* C6: the written output is the fragments in the order their lines were
\* processed: the lines are taken one by one from the first, each adds its
\* fragment at the end of the collected fragments or, when the fragment is
\* empty, nothing; the closure adds at most one fragment at the end, after the
\* last line; the text written is the collected fragments in that order.
C6_FragmentOrder ==
  [][/\ (pc = "read" /\ pc' = "loop") => html_content' = <<>> /\ idx' = 1
     /\ pc = "loop" =>
          \/ /\ IsLoopStep
             /\ pc' = "loop"
             /\ html_line' = markdown_to_html_line(Stripped(idx), in_unordered_list,
                                                   in_ordered_list, in_paragraph)[1]
             /\ html_content' = IF html_line' = <<>> THEN html_content
                                ELSE html_content \o <<html_line'>>
          \/ /\ pc' = "write"
             /\ idx > Len(lines)
             /\ idx' = idx
             /\ IsPrefix(html_content, html_content')
             /\ Len(html_content') <= Len(html_content) + 1
          \/ /\ pc' = "exit"
             /\ html_content' = html_content
     /\ pc \notin {"read", "loop"} => html_content' = html_content
     /\ (pc = "write" /\ pc' = "written") =>
          out_file' = [exists |-> TRUE,
                       text   |-> LinesText(html_content, Len(html_content))]
    ]_vars

\* a heading, a list item and a paragraph line written in that order, the
\* paragraph's closing tag last
C6_Witness ==
  /\ pc = "written"
  /\ html_content = <<LitHeading(1, <<"a">>), LitUlOpen \o LitLi(<<"a">>),
                      LitPOpen \o <<"a">>, LitPClose>>
  /\ out_file.text =
       LitHeading(1, <<"a">>) \o <<"\n">> \o LitUlOpen \o LitLi(<<"a">>) \o <<"\n">>
         \o LitPOpen \o <<"a">> \o <<"\n">> \o LitPClose

\* the message is one line: it ends with its only line break
IsOneLine(m) ==
  /\ m # <<>>
  /\ m[Len(m)] = "\n"
  /\ \A k \in 1..(Len(m) - 1) : m[k] # "\n"

\* C10: an error raised while the input is read or the lines are transformed
\* leaves the output file as it was, writes one line to the error stream and
\* ends the process with a non-zero status; the output file changes only in
\* the write, after the last line is transformed and the closure appended.
C10_NoOutputOnEarlyError ==
  [][/\ (pc \in {"read", "loop"} /\ pc' \notin {"loop", "write"}) =>
          /\ out_file' = out_file
          /\ Len(stderr') = Len(stderr) + 1
          /\ SubSeq(stderr', 1, Len(stderr)) = stderr
          /\ IsOneLine(stderr'[Len(stderr')])
          /\ pc' = "exit"
          /\ status' # <<>> /\ status'[1] # 0
     /\ out_file' # out_file =>
          /\ pc = "write"
          /\ idx = Len(lines) + 1
          /\ ClosingTagFor # <<>> =>
               /\ html_content # <<>>
               /\ html_content[Len(html_content)] = ClosingTagFor[1]
     /\ pc # "exit"
    ]_vars

\* the run failed after the first line was transformed: the old output file is
\* as it was
C10_Witness ==
  /\ pc = "exit"
  /\ status = <<1>>
  /\ Len(stderr) = 1 /\ IsOneLine(stderr[1])
  /\ Len(lines) = 3 /\ idx = 2
  /\ html_content # <<>>
  /\ out_file = OldFile

\* the fragment of the line being processed, were rewritten its text after the
\* four substitutions
FragmentOf(rewritten) ==
  classify(rewritten, in_unordered_list, in_ordered_list, in_paragraph)[1]

\* the positions of the markers m of s from index i on, left to right, no two
\* overlapping
RECURSIVE MarkerPositions(_, _, _)
MarkerPositions(m, s, i) ==
  LET k == Find(s, m, i)
  IN  IF k = 0 THEN <<>> ELSE <<k>> \o MarkerPositions(m, s, k + Len(m))

\* s from its k-th marker on: the markers of a pair become the opening and the
\* closing tag, a last marker without partner stays
RECURSIVE PairedFrom(_, _, _, _, _, _)
PairedFrom(m, open, close, s, pos, k) ==
  LET n     == Len(pos)
      from  == IF k = 1 THEN 1 ELSE pos[k - 1] + Len(m)
  IN  IF k > n THEN SubSeq(s, from, Len(s))
      ELSE SubSeq(s, from, pos[k] - 1)
             \o (IF k > 2 * (n \div 2) THEN m ELSE IF k % 2 = 1 THEN open ELSE close)
             \o PairedFrom(m, open, close, s, pos, k + 1)

\* each '**' paired with the next following '**'
PairedBold(s) ==
  PairedFrom(<<"*", "*">>, <<"<", "b", ">">>, <<"<", "/", "b", ">">>, s,
             MarkerPositions(<<"*", "*">>, s, 1), 1)

\* each '__' paired with the next following '__'
PairedEmphasis(s) ==
  PairedFrom(<<"_", "_">>, <<"<", "e", "m", ">">>, <<"<", "/", "e", "m", ">">>, s,
             MarkerPositions(<<"_", "_">>, s, 1), 1)

\* C7: bold and emphasis are non-greedy and leave unmatched markers alone:
\* each '**' pairs with the next following '**' and the pair becomes
\* '<b>inner</b>', likewise '__' and '<em>inner</em>'; with an odd number of
\* markers the last one stays as literal text.
C7_BoldEmphasisPairs ==
  [][IsLoopStep =>
       html_line' = FragmentOf(sub_remove_c(sub_md5(
                      PairedEmphasis(PairedBold(Stripped(idx))))))]_vars

BoldA == <<"<", "b", ">", "a", "<", "/", "b", ">">>
BoldB == <<"<", "b", ">", "b", "<", "/", "b", ">">>

\* '**a** x **b**' came out as two bold spans, or '**a****' with its third
\* marker left as it was
C7_Witness ==
  /\ idx = 2
  /\ \/ /\ Stripped(1) = <<"*", "*", "a", "*", "*", " ", "x", " ", "*", "*", "b", "*", "*">>
        /\ html_line = LitPOpen \o BoldA \o <<" ", "x", " ">> \o BoldB
     \/ /\ Stripped(1) = <<"*", "*", "a", "*", "*", "*", "*">>
        /\ html_line = LitPOpen \o BoldA \o <<"*", "*">>

\* the spans open...close of s from index i on, left to right, as pairs of the
\* positions of the opening and the closing delimiter: a span closes at the
\* first closing delimiter behind its opening one
RECURSIVE Spans(_, _, _, _)
Spans(open, close, s, i) ==
  LET o == Find(s, open, i)
      c == IF o = 0 THEN 0 ELSE Find(s, close, o + Len(open))
  IN  IF o = 0 \/ c = 0 THEN <<>>
      ELSE << <<o, c>> >> \o Spans(open, close, s, c + Len(close))

\* the text the k-th span encloses (the delimiters are two characters long)
Enclosed(s, sp, k) == SubSeq(s, sp[k][1] + 2, sp[k][2] - 1)

\* s from its k-th span on, the spans replaced by with[k], the text outside
\* them as it is
RECURSIVE Spliced(_, _, _, _)
Spliced(s, sp, with, k) ==
  LET from == IF k = 1 THEN 1 ELSE sp[k - 1][2] + 2
  IN  IF k > Len(sp) THEN SubSeq(s, from, Len(s))
      ELSE SubSeq(s, from, sp[k][1] - 1) \o with[k] \o Spliced(s, sp, with, k + 1)

HashSpans(s) == Spans(<<"[", "[">>, <<"]", "]">>, s, 1)
StripSpans(s) == Spans(<<"(", "(">>, <<")", ")">>, s, 1)

\* each '[[t]]' span of s replaced by the digest of t
Hashed(s) ==
  LET sp == HashSpans(s)
  IN  Spliced(s, sp, [k \in 1..Len(sp) |-> md5_hash(Enclosed(s, sp, k))], 1)

\* C8 as claimed: each '[[t]]' span of the input line is replaced by the
\* digest of the exact text t it encloses in the input line (markers inside
\* the span are not expanded first), so that on a line without a strip span
\* the digest of t is in the fragment.
C8_Original ==
  [][(IsLoopStep /\ StripSpans(Stripped(idx)) = <<>>) =>
       LET s  == Stripped(idx)
           sp == HashSpans(s)
       IN  \A k \in 1..Len(sp) :
             Contains(html_line', md5_hash(Enclosed(s, sp, k)))]_vars

\* C8, amended: each '[[t]]' span of the line as bold and emphasis have
\* rewritten it is replaced by the digest of the text t it then encloses, the
\* text around it untouched; markers that pair up inside a span of the input
\* line are expanded before the hash (and the strip) is applied to the span.
C8_HashAfterBoldEmphasis ==
  [][IsLoopStep =>
       html_line' = FragmentOf(sub_remove_c(Hashed(
                      sub_emphasis(sub_bold(Stripped(idx))))))]_vars

\* md5 of '<b></b>'
DigestOfEmptyBold ==
  <<"8", "e", "7", "9", "4", "8", "3", "a", "2", "9", "e", "6", "2", "b", "d", "b",
    "7", "f", "f", "9", "0", "e", "6", "6", "4", "2", "2", "4", "a", "2", "a", "a">>

\* '[[****]]' came out as the digest of '<b></b>'
C8_Witness ==
  /\ idx = 2
  /\ Stripped(1) = <<"[", "[", "*", "*", "*", "*", "]", "]">>
  /\ html_line = LitPOpen \o DigestOfEmptyBold

\* t without its letters 'c' and 'C', the other characters in their order
RECURSIVE WithoutC(_)
WithoutC(t) ==
  IF t = <<>> THEN <<>>
  ELSE IF Head(t) = "c" \/ Head(t) = "C" THEN WithoutC(Tail(t))
  ELSE <<Head(t)>> \o WithoutC(Tail(t))

\* each '((t))' span of s replaced by t without 'c' and 'C'
Stripped_c(s) ==
  LET sp == StripSpans(s)
  IN  Spliced(s, sp, [k \in 1..Len(sp) |-> WithoutC(Enclosed(s, sp, k))], 1)

\* C9: each '((t))' span of the line the strip substitution is applied to is
\* replaced by t with every 'c' and 'C' removed and every other character
\* kept in its order; the delimiters disappear and the text outside the span
\* is unchanged.
C9_StripRemovesC ==
  [][IsLoopStep =>
       html_line' = FragmentOf(Stripped_c(sub_md5(
                      sub_emphasis(sub_bold(Stripped(idx))))))]_vars

\* md5 of 'abc'
DigestOfAbc ==
  <<"9", "0", "0", "1", "5", "0", "9", "8", "3", "c", "d", "2", "4", "f", "b", "0",
    "d", "6", "9", "6", "3", "f", "7", "d", "2", "8", "e", "1", "7", "f", "7", "2">>

\* 'x[[abc]] ((Cocoa))': the span became 'ooa', the 'c' of the digest in front
\* of it stayed
C9_Witness ==
  /\ idx = 2
  /\ Stripped(1) = <<"x", "[", "[", "a", "b", "c", "]", "]", " ",
                     "(", "(", "C", "o", "c", "o", "a", ")", ")">>
  /\ html_line = LitPOpen \o <<"x">> \o DigestOfAbc \o <<" ", "o", "o", "a">>

LitUsage == <<"Usage: ./markdown2html.py README.md README.html", "\n">>
LitMissing(path) == <<"Missing ", path, "\n">>

\* the invocation has fewer than two path arguments, or its input path is
\* not an existing regular file
BadInvocation == Len(argv) < 3 \/ ~md_isfile

\* C11: an invocation with fewer than two path arguments, or whose input path
\* is not an existing regular file, ends in a terminal error state: one line
\* on the error stream (the usage message, or 'Missing <path>' with the input
\* path), exit status 1, the argument count checked before the file, the
\* input not read and the output file neither created nor modified.
C11_BadInvocation ==
  [][BadInvocation =>
       /\ pc \in {"argc", "isfile"}
       /\ out_file' = out_file
       /\ lines' = <<>> /\ html_content' = <<>>
       /\ pc = "argc" =>
            IF Len(argv) < 3
              THEN pc' = "exit" /\ status' = <<1>> /\ stderr' = <<LitUsage>>
              ELSE pc' = "isfile" /\ status' = <<>> /\ stderr' = <<>>
       /\ pc = "isfile" =>
            /\ Len(argv) >= 3
            /\ pc' = "exit" /\ status' = <<1>>
            /\ stderr' = <<LitMissing(argv[2])>>
            /\ IsOneLine(stderr'[1])]_vars

\* the input path names no file: 'Missing README.md', status 1, the old output
\* file as it was
C11_Witness ==
  /\ pc = "exit"
  /\ Len(argv) = 3 /\ ~md_isfile
  /\ stderr = << <<"Missing ", "README.md", "\n">> >>
  /\ status = <<1>>
  /\ lines = <<>>
  /\ out_file = OldFile

\* status zero: every line was transformed and the output file holds the
\* collected fragments, none of them empty, one line break between two of them
\* and none at the end
WrittenInFull ==
  /\ pc = "exit"
  /\ idx = Len(lines) + 1
  /\ \A k \in 1..Len(html_content) : html_content[k] # <<>>
  /\ out_file = [exists |-> TRUE, text |-> LinesText(html_content, Len(html_content))]
  /\ out_file.text = <<>> \/ out_file.text[Len(out_file.text)] # "\n"

\* C12: the process ends with status zero only after the output file has been
\* written completely, and the file then holds exactly the collected non-empty
\* fragments joined by single line breaks with none at the end; every run ends,
\* with exactly one of the outcomes exit 0 and exit non-zero.
C12_ExitZeroAfterWrite ==
  /\ [](status = <<0>> => WrittenInFull)
  /\ [](status \in {<<>>, <<0>>, <<1>>} /\ (pc = "exit" <=> status # <<>>))
  /\ [][status # <<>> => status' = status]_vars
  /\ <>[](pc = "exit")

\* a paragraph of two lines written, closed at the end of the document; exit 0
C12_Witness ==
  /\ pc = "exit"
  /\ status = <<0>>
  /\ Len(lines) = 2
  /\ out_file.text = LitPOpen \o <<"a", "\n">> \o LitPBreak \o <<"b", "\n">> \o LitPClose

Kinds == {"ul", "ol", "p"}

Opener(K) == CASE K = "ul" -> LitUlOpen  [] K = "ol" -> LitOlOpen  [] K = "p" -> LitPOpen
Closer(K) == CASE K = "ul" -> LitUlClose [] K = "ol" -> LitOlClose [] K = "p" -> LitPClose

\* line k is paragraph text
IsParagraphText(k) ==
  ~IsHeadingText(Rewritten(k)) /\ ~IsUlItem(k) /\ ~IsOlItem(k) /\ ~IsBlank(k)

\* the kind of block line k belongs to, "none" for a heading and a blank line
KindOf(k) ==
  IF IsHeadingText(Rewritten(k)) THEN "none"
  ELSE IF IsUlItem(k) THEN "ul"
  ELSE IF IsOlItem(k) THEN "ol"
  ELSE IF IsBlank(k) THEN "none"
  ELSE "p"

\* the block of kind K is open in the scan state
IsOpen(K) ==
  CASE K = "ul" -> in_unordered_list [] K = "ol" -> in_ordered_list [] K = "p" -> in_paragraph

\* the blocks of kind K that one of the first n lines left without being a
\* blank line: a line of another kind right after a line of kind K
Abandoned(K, n) ==
  Cardinality({k \in 2..n : KindOf(k - 1) = K /\ KindOf(k) # K /\ ~IsBlank(k)})

Opened(K) ==
  Cardinality({j \in 1..Len(html_content) : startswith(html_content[j], Opener(K))})
Closed(K) ==
  Cardinality({j \in 1..Len(html_content) : html_content[j] = Closer(K)})

\* a closing tag of a block occurs in fragment f
HasClosingTag(f) == \E K \in Kinds : Contains(f, Closer(K))

\* the line at idx is a heading and finds a block open, or is paragraph text
\* and finds a list open
AbandonsBlock ==
  \/ IsHeadingText(Rewritten(idx)) /\ flags # NoBlock
  \/ IsParagraphText(idx) /\ (in_unordered_list \/ in_ordered_list)

\* C13: closing tags are emitted only by a blank line and by the closure at
\* the end of the document; a heading that finds a list or a paragraph open,
\* and paragraph text that finds a list open, emit no closing tag and reset or
\* switch the state, and the closing tag of the block they abandon is never
\* emitted later: every block opened is closed once, abandoned, or still open.
C13_ClosingTagsOnlyByBlankOrEnd ==
  /\ [][/\ (html_content' # html_content /\ HasClosingTag(html_content'[Len(html_content')])) =>
            \/ IsLoopStep /\ IsBlank(idx)
            \/ pc = "loop" /\ pc' = "write" /\ idx > Len(lines)
        /\ (IsLoopStep /\ AbandonsBlock) =>
            /\ ~HasClosingTag(html_line')
            /\ html_content' = html_content \o <<html_line'>>
            /\ flags' = IF IsHeadingText(Rewritten(idx)) THEN NoBlock ELSE ParagraphOnly
       ]_vars
  /\ [](pc \in {"loop", "write", "written"} =>
          \A K \in Kinds :
            Opened(K) = Closed(K) + Abandoned(K, idx - 1)
                          + (IF pc = "loop" /\ IsOpen(K) THEN 1 ELSE 0))

\* an item, text, a blank line: the list was opened and abandoned, the one
\* closing tag is the paragraph's
C13_Witness ==
  /\ pc = "written"
  /\ html_content = <<LitUlOpen \o LitLi(<<"a">>), LitPOpen \o <<"a">>, LitPClose>>
  /\ Len(lines) = 3 /\ IsBlank(3)

\* C14: a line that is empty after stripping emits exactly the closing tag of
\* the block that is open ('</ul>', '</ol>' or '</p>') and clears all flags;
\* with no block open it emits the empty fragment, which is not collected, and
\* the flags stay all-false; so of consecutive blank lines only the first can
\* put something in the output.
C14_BlankLine ==
  [][(IsLoopStep /\ Stripped(idx) = <<>>) =>
       /\ html_line' = (IF ClosingTagFor = <<>> THEN <<>> ELSE ClosingTagFor[1])
       /\ html_content' = html_content \o ClosingTagFor
       /\ flags' = NoBlock
       /\ flags = NoBlock => html_line' = <<>> /\ html_content' = html_content
       /\ (idx > 1 /\ Stripped(idx - 1) = <<>>) =>
            html_line' = <<>> /\ html_content' = html_content]_vars

\* an ordered item and two blank lines: the first closed the list, the second
\* added nothing
C14_Witness ==
  /\ pc = "loop"
  /\ idx = 4
  /\ IsOlItem(1) /\ Stripped(2) = <<>> /\ Stripped(3) = <<>>
  /\ html_content = <<LitOlOpen \o LitLi(<<"a">>), LitOlClose>>
  /\ html_line = <<>>
  /\ flags = NoBlock

UnorderedOnly == <<TRUE, FALSE, FALSE>>
OrderedOnly == <<FALSE, TRUE, FALSE>>

\* C15: a list item emits its opener exactly when the flag of its own list
\* kind is false: a '- ' line gives '<ul>\n<li>text</li>' if in_unordered_list
\* was false and '<li>text</li>' otherwise, and leaves the state unordered-only;
\* a '* ' line does the same with '<ol>' and in_ordered_list; so an item right
\* after an item of the other kind opens a list of its own kind.
C15_ListOpener ==
  [][IsLoopStep =>
       /\ startswith(Stripped(idx), <<"-", " ">>) =>
            /\ html_line' = (IF in_unordered_list THEN <<>> ELSE LitUlOpen)
                              \o LitLi(ItemText(idx))
            /\ flags' = UnorderedOnly
       /\ startswith(Stripped(idx), <<"*", " ">>) =>
            /\ html_line' = (IF in_ordered_list THEN <<>> ELSE LitOlOpen)
                              \o LitLi(ItemText(idx))
            /\ flags' = OrderedOnly
       /\ startswith(html_line', LitUlOpen) <=> (IsUlItem(idx) /\ ~in_unordered_list)
       /\ startswith(html_line', LitOlOpen) <=> (IsOlItem(idx) /\ ~in_ordered_list)]_vars

\* '* a' came out without opener: the ordered list was open
C15_Witness ==
  /\ idx = 2
  /\ Stripped(1) = <<"*", " ", "a">>
  /\ html_line = LitLi(<<"a">>)
  /\ flags = OrderedOnly

ClosingTags == {LitUlClose, LitOlClose, LitPClose}

\* what the blank-line rule does from the scan state
ByBlankLineRule ==
  /\ html_line' = (IF ClosingTagFor = <<>> THEN <<>> ELSE ClosingTagFor[1])
  /\ flags' = NoBlock

\* C16 as claimed: the blank-line rule applies exactly to the lines that are
\* empty after stripping; a line that is not empty after stripping never emits
\* a bare closing tag and never yields the empty fragment.
C16_Original ==
  [][IsLoopStep =>
       IF Stripped(idx) = <<>> THEN ByBlankLineRule
       ELSE html_line' \notin ClosingTags /\ html_line' # <<>>]_vars

\* C16, amended: the blank-line rule applies exactly to the lines that are
\* empty after stripping and the four inline substitutions, among them every
\* line that is empty after stripping; a line that is not empty after the
\* substitutions never emits a bare closing tag and never yields the empty
\* fragment.
C16_BlankAfterSubstitution ==
  [][IsLoopStep =>
       /\ IF Rewritten(idx) = <<>> THEN ByBlankLineRule
          ELSE html_line' \notin ClosingTags /\ html_line' # <<>>
       /\ Stripped(idx) = <<>> => Rewritten(idx) = <<>>]_vars

\* '((c))' closed the unordered list
C16_Witness ==
  /\ idx = 2
  /\ Stripped(1) = <<"(", "(", "c", ")", ")">>
  /\ html_line = LitUlClose
  /\ html_content = <<LitUlClose>>
  /\ flags = NoBlock

\* among the first n fragments, those that open and those that close a block
\* of kind K
OpenersIn(K, n) == {j \in 1..n : startswith(html_content[j], Opener(K))}
ClosersIn(K, n) == {j \in 1..n : html_content[j] = Closer(K)}

\* the last fragment before the j-th that opens a block, 0 when there is none
LastOpenerBefore(j) ==
  LET os == UNION {OpenersIn(K, j - 1) : K \in Kinds}
  IN  IF os = {} THEN 0 ELSE CHOOSE i \in os : \A m \in os : m <= i

\* C17: in every prefix of the output fragments, for each block kind the
\* closing tags are at most as many as the opening tags, and every closing tag
\* is of the kind of the block opened last before it.
C17_TagBalance ==
  \A n \in 0..Len(html_content) :
    \A K \in Kinds :
      /\ Cardinality(ClosersIn(K, n)) <= Cardinality(OpenersIn(K, n))
      /\ \A j \in ClosersIn(K, n) :
           /\ LastOpenerBefore(j) > 0
           /\ startswith(html_content[LastOpenerBefore(j)], Opener(K))

\* '- a' then '* a': the closure closed the ordered list, opened last
C17_Witness ==
  /\ pc = "written"
  /\ html_content = <<LitUlOpen \o LitLi(<<"a">>), LitOlOpen \o LitLi(<<"a">>), LitOlClose>>

\* the state the line at idx leads to, whatever the state it finds
StateAfterLine ==
  CASE KindOf(idx) = "ul"   -> UnorderedOnly
    [] KindOf(idx) = "ol"   -> OrderedOnly
    [] KindOf(idx) = "p"    -> ParagraphOnly
    [] KindOf(idx) = "none" -> NoBlock

\* the flags markdown_to_html_line returns for line s from the incoming state f
ReturnedFlags(s, f) ==
  LET r == markdown_to_html_line(s, f[1], f[2], f[3])
  IN  <<r[2], r[3], r[4]>>

\* C18: the state markdown_to_html_line returns depends on the line only: from
\* every incoming state the returned flags are the same (all false for a
\* heading and for a blank line, unordered only for a '- ' item, ordered only
\* for a '* ' item, paragraph only for other text).
C18_StateDependsOnLineOnly ==
  [][IsLoopStep =>
       /\ flags' = StateAfterLine
       /\ \A f \in BOOLEAN \X BOOLEAN \X BOOLEAN :
            ReturnedFlags(Stripped(idx), f) = flags']_vars

\* 'a' found the paragraph open: the fragment is the line break one, the state
\* the same as from any other state
C18_Witness ==
  /\ idx = 2
  /\ Stripped(1) = <<"a">>
  /\ html_line = LitPBreak \o <<"a">>
  /\ flags = ParagraphOnly

=============================================================================
